---- MODULE Spec2Model ----
(***************************************************************************)
(* weighslide: weighted sliding-window reduction over a 1D series.         *)
(* Model of calculate_weighted_windows and of run_weighslide, which calls   *)
(* it on a column of a file (src/weighslide/weighslide.py).                *)
(*                                                                         *)
(* Numbers.  A float is modelled as an exact rational <<n, d>> in lowest   *)
(* terms with d > 0; np.nan is <<0, 0>>.  The result of a square root is   *)
(* kept symbolic as <<n, d, 2>> ("the square root of n/d").                *)
(*                                                                         *)
(* Series.  A pandas Series is a record                                    *)
(*     [name, index, at, index_name]                                       *)
(* where index is the sequence of labels in order (Python position p is    *)
(* TLA+ position p+1), at maps each label to its value, and a name is a    *)
(* tuple of its parts (<<>> for None).                                     *)
(*                                                                         *)
(* Exceptions.  raised names the raise statement that ended the call:      *)
(*   "UnexpectedKeyword"     TypeError of the call binding (def, line 236) *)
(*   "InvalidSpecification"  ValueError of astype(float) (278, 291) and    *)
(*                           TypeError (294)                               *)
(*   "EmptyWindow"           ValueError (297)                              *)
(*   "EvenWindowLength"      ValueError (300)                              *)
(*   "WindowTooLong"         ValueError (306)                              *)
(*   "InputTooLarge"         ValueError (334)                              *)
(*   "SliceLengthMismatch"   AssertionError (355)                          *)
(*   "UnknownStatistic"      ValueError (370)                              *)
(***************************************************************************)
EXTENDS Integers, Sequences, FiniteSets, TLC

VARIABLES
    kwargs,               \* keyword arguments of the call besides the declared ones
    data_series,          \* the caller's Series object (passed by reference)
    window,               \* the window argument: [type, chars, items]
    statistic,            \* the statistic argument
    full_output,          \* the full_output argument
    pc,                   \* position of the call in the function body
    window_length,
    window_array,
    extension_each_side,
    extend_series,
    output_series,
    df_orig_sliced,
    df_multiplied,
    data_series_len,
    i,                    \* the position the loop handles next
    orig_sliced,
    win_multiplied,
    stdout,               \* what print / sys.stdout.write have written
    raised,               \* "" or the exception that ended the call
    returned,             \* "" before the return, then "full" (the 4-tuple) or "series"
    run_pc,               \* where run_weighslide is; "none" when it is not the caller
    infile,
    run_kwargs,           \* the **kwargs of run_weighslide
    disk,                 \* the directories and the files of the file system
    df,
    out_name,
    window_str,
    outpath,
    out_basename,
    overwrite,
    run_raised            \* "" or the exception that ended run_weighslide

vars == <<kwargs, data_series, window, statistic, full_output, pc, window_length,
          window_array, extension_each_side, extend_series, output_series,
          df_orig_sliced, df_multiplied, data_series_len, i, orig_sliced,
          win_multiplied, stdout, raised, returned, run_pc, infile, run_kwargs, disk,
          df, out_name, window_str, outpath, out_basename, overwrite, run_raised>>

locals == <<window_length, window_array, extension_each_side, extend_series,
            output_series, df_orig_sliced, df_multiplied, data_series_len, i,
            orig_sliced, win_multiplied>>

args == <<kwargs, window, statistic, full_output>>

\* the state of run_weighslide, which calculate_weighted_windows cannot reach
caller == <<run_pc, infile, run_kwargs, disk, df, out_name, window_str, outpath,
            out_basename, overwrite, run_raised>>

----------------------------------------------------------------------------
(* Bounds of the model *)

MaxLen == 2          \* longest enumerated input series
MaxWinLen == 3       \* longest enumerated window

(* Program constants *)

MaxWindowLength == 100     \* elif window_length > 100
WarnLength == 1000         \* if data_series_len > 1000
MaxDataLength == 10000     \* if data_series_len > 10000
DotLength == 100           \* if data_series_len > 100
DotEvery == 100            \* if i % 100 == 0
PosPad == 5                \* np.arange(1, 6): five labels after the data

----------------------------------------------------------------------------
(* Exact arithmetic standing for float arithmetic *)

NaN == <<0, 0>>

IsNaN(v) == v = NaN

Abs(n) == IF n < 0 THEN -n ELSE n

RECURSIVE GCD(_, _)
GCD(a, b) == IF b = 0 THEN a ELSE GCD(b, a % b)

Rat(n, d) ==
    LET g == GCD(Abs(n), Abs(d))
        s == IF d < 0 THEN -1 ELSE 1
    IN  <<(s * n) \div g, (s * d) \div g>>

Num(n) == <<n, 1>>

\* float multiplication: nan if either operand is nan
Mul(a, b) == IF IsNaN(a) \/ IsNaN(b) THEN NaN ELSE Rat(a[1] * b[1], a[2] * b[2])

Add(a, b) == IF IsNaN(a) \/ IsNaN(b) THEN NaN
             ELSE Rat(a[1] * b[2] + b[1] * a[2], a[2] * b[2])

Sub(a, b) == IF IsNaN(a) \/ IsNaN(b) THEN NaN
             ELSE Rat(a[1] * b[2] - b[1] * a[2], a[2] * b[2])

DivInt(a, n) == IF IsNaN(a) \/ n = 0 THEN NaN ELSE Rat(a[1], a[2] * n)

Sqrt(a) == IF IsNaN(a) THEN NaN ELSE <<a[1], a[2], 2>>

----------------------------------------------------------------------------
(* pandas Series *)

EmptySeries == [name |-> <<>>, index |-> <<>>, at |-> <<>>, index_name |-> ""]

Labels(s) == {s.index[p] : p \in 1..Len(s.index)}

\* Series.reindex(labels): the value of each label present, nan for the others
Reindex(s, labels) ==
    [name |-> s.name,
     index |-> labels,
     at |-> [k \in {labels[p] : p \in 1..Len(labels)} |->
                IF k \in DOMAIN s.at THEN s.at[k] ELSE NaN],
     index_name |-> s.index_name]

\* the values of a Series in index order
Values(s) == [p \in 1..Len(s.index) |-> s.at[s.index[p]]]

\* list(range(a, b))
Range(a, b) == [p \in 1..(IF b > a THEN b - a ELSE 0) |-> a + p - 1]

\* Series.fillna(fill)
FillNa(s, fill) ==
    [s EXCEPT !.at = [k \in DOMAIN s.at |-> IF IsNaN(s.at[k]) THEN fill ELSE s.at[k]]]

NoData == <<0, 0, 0>>      \* the cell text "nodata" of fillna("nodata")
Blank == <<0, 0, 1>>       \* the cell text "" of fillna("")

\* Series * ndarray: position by position, the index and the name kept
TimesArray(s, arr) ==
    [s EXCEPT !.at = [k \in DOMAIN s.at |->
        LET p == CHOOSE q \in 1..Len(s.index) : s.index[q] = k
        IN  Mul(s.at[k], arr[p])]]

----------------------------------------------------------------------------
(* The window argument *)

\* float(c) of a one-character text: defined for the digits only
DigitOf == ("0" :> 0) @@ ("1" :> 1) @@ ("2" :> 2) @@ ("3" :> 3) @@ ("4" :> 4) @@
           ("5" :> 5) @@ ("6" :> 6) @@ ("7" :> 7) @@ ("8" :> 8) @@ ("9" :> 9)

IgnoreMarker == "x"

StrWindow(chars) == [type |-> "str", chars |-> chars, items |-> <<>>]
ListWindow(items) == [type |-> "list", chars |-> <<>>, items |-> items]
OtherWindow(items) == [type |-> "other", chars |-> <<>>, items |-> items]

NumItem(v) == [kind |-> "num", num |-> v, text |-> ""]
TextItem(t) == [kind |-> "text", num |-> NaN, text |-> t]

\* faulty variant of StringWeight: the digit itself over 10, without the shift by one
StringWeightNoShift(c) ==
    IF c = IgnoreMarker THEN NaN ELSE Rat(DigitOf[c], 10)

\* faulty variant of StringWeight: the ignore marker weighted as the digit 0
StringWeightIgnoreAsDigit(c) ==
    IF c = IgnoreMarker THEN Rat(1, 10) ELSE Rat(DigitOf[c] + 1, 10)

\* lines 274-280: replace("x", nan), astype(float), (w + 1) / 10 on one character
StringWeight(c) ==
    IF c = IgnoreMarker THEN NaN ELSE Rat(DigitOf[c] + 1, 10)

\* astype(float) at line 278 succeeds
StringConverts(chars) ==
    \A k \in 1..Len(chars) : chars[k] = IgnoreMarker \/ chars[k] \in DOMAIN DigitOf

StringWindowArray(chars) == [k \in 1..Len(chars) |-> StringWeight(chars[k])]

\* lines 287-291: replace("x", nan), astype(float) on one list element
ItemWeight(it) ==
    IF it.kind = "num" THEN it.num
    ELSE IF it.text = IgnoreMarker THEN NaN
    ELSE Num(DigitOf[it.text])

\* astype(float) at line 291 succeeds: float(text) is defined
ItemConverts(it) ==
    it.kind = "num" \/ it.text = IgnoreMarker \/ it.text \in DOMAIN DigitOf

ListConverts(items) == \A k \in 1..Len(items) : ItemConverts(items[k])

ListWindowArray(items) == [k \in 1..Len(items) |-> ItemWeight(items[k])]

\* faulty variant of LengthError: the parity check placed first
LengthErrorEvenFirst(len) ==
    IF len % 2 = 0 THEN "EvenWindowLength"
    ELSE IF len = 0 THEN "EmptyWindow"
    ELSE IF len > MaxWindowLength THEN "WindowTooLong"
    ELSE ""

\* faulty variant of LengthError: the upper limit left out
LengthErrorNoLimit(len) ==
    IF len = 0 THEN "EmptyWindow"
    ELSE IF len % 2 = 0 THEN "EvenWindowLength"
    ELSE ""

\* lines 296-307: the exception of the length checks, "" when the length passes
LengthError(len) ==
    IF len = 0 THEN "EmptyWindow"
    ELSE IF len % 2 = 0 THEN "EvenWindowLength"
    ELSE IF len > MaxWindowLength THEN "WindowTooLong"
    ELSE ""

----------------------------------------------------------------------------
(* The statistics: pandas mean(), std(), sum() with skipna *)

NonMissing(vals) == SelectSeq(vals, LAMBDA v : ~IsNaN(v))

RECURSIVE Total(_)
Total(vals) == IF vals = <<>> THEN Num(0) ELSE Add(Head(vals), Total(Tail(vals)))

\* faulty variant of SeriesSum: missing values propagate into the sum
SeriesSumPropagates(vals) == Total(vals)

\* Series.sum(): the sum of the non-missing values, 0 when there is none
SeriesSum(vals) == Total(NonMissing(vals))

\* faulty variant of SeriesMean: the divisor is the slice length
SeriesMeanByLength(vals) ==
    LET nn == NonMissing(vals)
    IN  IF Len(nn) = 0 THEN NaN ELSE DivInt(Total(nn), Len(vals))

\* Series.mean(): nan when every value is missing
SeriesMean(vals) ==
    LET nn == NonMissing(vals)
    IN  IF Len(nn) = 0 THEN NaN ELSE DivInt(Total(nn), Len(nn))

\* faulty variant of SeriesStd: the population standard deviation (ddof = 0)
SeriesStdPopulation(vals) ==
    LET nn == NonMissing(vals)
        m == DivInt(Total(nn), Len(nn))
        sq == [p \in 1..Len(nn) |-> Mul(Sub(nn[p], m), Sub(nn[p], m))]
    IN  IF Len(nn) < 1 THEN NaN ELSE Sqrt(DivInt(Total(sq), Len(nn)))

\* Series.std(): sample standard deviation (ddof = 1), nan below two values
SeriesStd(vals) ==
    LET nn == NonMissing(vals)
        m == DivInt(Total(nn), Len(nn))
        sq == [p \in 1..Len(nn) |-> Mul(Sub(nn[p], m), Sub(nn[p], m))]
    IN  IF Len(nn) < 2 THEN NaN ELSE Sqrt(DivInt(Total(sq), Len(nn) - 1))

\* faulty variant of Statistics: the final branch taken for any selector
StatisticsUnchecked == {"mean", "std", "sum", "median"}

Statistics == {"mean", "std", "sum"}

\* lines 360-368
StatisticOf(stat, vals) ==
    IF stat = "mean" THEN SeriesMean(vals)
    ELSE IF stat = "std" THEN SeriesStd(vals)
    ELSE SeriesSum(vals)

----------------------------------------------------------------------------
(* calculate_weighted_windows(data_series, window, statistic, full_output=True) *)

Raise(kind) ==
    /\ raised' = kind
    /\ pc' = "raised"

\* line 236 (binding of the arguments) and line 268
Call ==
    /\ pc = "call"
    /\ IF kwargs # {}
       THEN /\ Raise("UnexpectedKeyword")
            /\ UNCHANGED data_series
       ELSE /\ data_series' = [data_series EXCEPT !.name = <<"original data">>]
            /\ pc' = "window"
            /\ UNCHANGED raised
    /\ UNCHANGED <<caller, args, locals, stdout, returned>>

\* lines 270-282: the window is a string
ParseString ==
    /\ pc = "window"
    /\ window.type = "str"
    /\ window_length' = Len(window.chars)
    /\ IF StringConverts(window.chars)
       THEN /\ window_array' = StringWindowArray(window.chars)
            /\ pc' = "length"
            /\ UNCHANGED raised
       ELSE /\ Raise("InvalidSpecification")
            /\ UNCHANGED window_array
    /\ UNCHANGED <<caller, args, data_series, extension_each_side, extend_series,
                   output_series, df_orig_sliced, df_multiplied, data_series_len, i,
                   orig_sliced, win_multiplied, stdout, returned>>

\* lines 284-291: the window is a list
ParseList ==
    /\ pc = "window"
    /\ window.type = "list"
    /\ window_length' = Len(window.items)
    /\ IF ListConverts(window.items)
       THEN /\ window_array' = ListWindowArray(window.items)
            /\ pc' = "length"
            /\ UNCHANGED raised
       ELSE /\ Raise("InvalidSpecification")
            /\ UNCHANGED window_array
    /\ UNCHANGED <<caller, args, data_series, extension_each_side, extend_series,
                   output_series, df_orig_sliced, df_multiplied, data_series_len, i,
                   orig_sliced, win_multiplied, stdout, returned>>

\* lines 293-294: the window is neither a string nor a list
ParseOther ==
    /\ pc = "window"
    /\ window.type \notin {"str", "list"}
    /\ Raise("InvalidSpecification")
    /\ UNCHANGED <<caller, args, data_series, locals, stdout, returned>>

\* lines 296-307
CheckLength ==
    /\ pc = "length"
    /\ IF LengthError(window_length) # ""
       THEN Raise(LengthError(window_length))
       ELSE /\ pc' = "pad"
            /\ UNCHANGED raised
    /\ UNCHANGED <<caller, args, data_series, locals, stdout, returned>>

\* line 310: int((window_length - 1) / 2)
HalfOf(len) == (len - 1) \div 2

\* faulty variant of PaddedIndex: no labels before the data
PaddedIndexNoLeft(half, s) ==
    s.index \o Range(Len(s.index), Len(s.index) + PosPad + half)

\* lines 313-316: neg_range + list(data_series.index) + pos_range
PaddedIndex(half, s) ==
    Range(-half, 0) \o s.index \o Range(Len(s.index), Len(s.index) + PosPad)

\* line 321: pd.Series(index=data_series.index)
NewOutput(s) ==
    [name |-> <<>>,
     index |-> s.index,
     at |-> [k \in Labels(s) |-> NaN],
     index_name |-> s.index_name]

\* lines 309-327
Pad ==
    /\ pc = "pad"
    /\ extension_each_side' = HalfOf(window_length)
    /\ extend_series' = Reindex(data_series, PaddedIndex(HalfOf(window_length), data_series))
    /\ output_series' = NewOutput(data_series)
    /\ df_orig_sliced' = <<>>
    /\ df_multiplied' = <<>>
    /\ data_series_len' = Len(data_series.index)
    /\ pc' = "size"
    /\ UNCHANGED <<caller, args, data_series, window_length, window_array, i, orig_sliced,
                   win_multiplied, stdout, raised, returned>>

\* lines 330-336: what the size check prints and whether it raises
SizeWarns(len) == len > WarnLength

\* faulty variant of SizeError: the size check commented out, as line 336 suggests
SizeErrorNever(len) == ""

\* faulty variant of SizeError: the limit itself rejected
SizeErrorInclusive(len) ==
    IF len > WarnLength /\ len >= MaxDataLength THEN "InputTooLarge" ELSE ""

SizeError(len) == IF len > WarnLength /\ len > MaxDataLength THEN "InputTooLarge" ELSE ""

CheckSize ==
    /\ pc = "size"
    /\ stdout' = IF SizeWarns(data_series_len) THEN Append(stdout, "Warning") ELSE stdout
    /\ IF SizeError(data_series_len) # ""
       THEN /\ Raise(SizeError(data_series_len))
            /\ UNCHANGED i
       ELSE /\ pc' = "loop"
            /\ i' = 0
            /\ UNCHANGED raised
    /\ UNCHANGED <<caller, args, data_series, window_length, window_array, extension_each_side,
                   extend_series, output_series, df_orig_sliced, df_multiplied,
                   data_series_len, orig_sliced, win_multiplied, returned>>

\* faulty variant of SliceAt: line 349, which keeps only the labels extend_series has
SliceAtPresentOnly(n) ==
    LET start == extend_series.index[n + 1]
        end == start + window_length
        kept == SelectSeq(Range(start, end), LAMBDA k : k \in DOMAIN extend_series.at)
    IN  [Reindex(extend_series, kept) EXCEPT !.name = <<"window", ToString(n)>>]

\* lines 344-351: the slice of position n
SliceAt(n) ==
    LET start == extend_series.index[n + 1]
        end == start + window_length
    IN  [Reindex(extend_series, Range(start, end)) EXCEPT !.name = <<"window", ToString(n)>>]

\* lines 340-343
Dots(out, n) ==
    IF data_series_len > DotLength /\ n % DotEvery = 0 THEN Append(out, ".") ELSE out

\* what the loop assigns, before its first pass; i is the position of the next pass
LoopEntry ==
    [i |-> 0, orig_sliced |-> orig_sliced, win_multiplied |-> win_multiplied,
     df_orig_sliced |-> df_orig_sliced, df_multiplied |-> df_multiplied,
     output_series |-> output_series, stdout |-> stdout, raised |-> ""]

\* lines 340-373: one pass of the loop body, for position st.i
Pass(st) ==
    LET sliced == SliceAt(st.i)
        mult == TimesArray(sliced, window_array)
        built == [st EXCEPT !.stdout = Dots(st.stdout, st.i),
                            !.orig_sliced = sliced,
                            !.df_orig_sliced = Append(@, FillNa(sliced, NoData))]
        weighted == [built EXCEPT !.win_multiplied = mult,
                                  !.df_multiplied = Append(@, FillNa(mult, Blank))]
    IN  IF Len(sliced.index) # Len(window_array)
        THEN [built EXCEPT !.raised = "SliceLengthMismatch"]
        ELSE IF statistic \notin Statistics
        THEN [weighted EXCEPT !.raised = "UnknownStatistic"]
        ELSE [weighted EXCEPT
                 !.output_series.at[st.i] = StatisticOf(statistic, Values(mult)),
                 !.i = st.i + 1]

\* line 339: the passes for positions lo .. hi-1 in order, ended by the first raise
RECURSIVE Passes(_, _, _)
Passes(st, lo, hi) ==
    IF st.raised # "" \/ lo >= hi THEN st
    ELSE IF hi = lo + 1 THEN Pass(st)
    ELSE LET mid == (lo + hi) \div 2
         IN  Passes(Passes(st, lo, mid), mid, hi)

\* lines 339-373: for i in range(data_series_len)
Loop ==
    /\ pc = "loop"
    /\ LET st == Passes(LoopEntry, 0, data_series_len)
       IN  /\ i' = st.i
           /\ orig_sliced' = st.orig_sliced
           /\ win_multiplied' = st.win_multiplied
           /\ df_orig_sliced' = st.df_orig_sliced
           /\ df_multiplied' = st.df_multiplied
           /\ output_series' = st.output_series
           /\ stdout' = st.stdout
           /\ raised' = st.raised
           /\ pc' = IF st.raised # "" THEN "raised" ELSE "return"
    /\ UNCHANGED <<caller, args, data_series, window_length, window_array, extension_each_side,
                   extend_series, data_series_len, returned>>

\* lines 375-381; the Index object of output_series is the one line 321 was given
Return ==
    /\ pc = "return"
    /\ output_series' = [output_series EXCEPT !.index_name = "position",
                                              !.name = <<statistic, "over window">>]
    /\ \E shared \in BOOLEAN :
          data_series' = IF shared
                         THEN [data_series EXCEPT !.index_name = "position"]
                         ELSE data_series
    /\ returned' = IF full_output = TRUE THEN "full" ELSE "series"
    /\ pc' = "done"
    /\ UNCHANGED <<caller, args, window_length, window_array, extension_each_side, extend_series,
                   df_orig_sliced, df_multiplied, data_series_len, i, orig_sliced,
                   win_multiplied, stdout, raised>>

Next ==
    \/ Call
    \/ ParseString
    \/ ParseList
    \/ ParseOther
    \/ CheckLength
    \/ Pad
    \/ CheckSize
    \/ Loop
    \/ Return

\* pd.Series(values), named as the caller's column is
SeriesOf(vals, name) ==
    [name |-> name,
     index |-> Range(0, Len(vals)),
     at |-> [k \in 0..(Len(vals) - 1) |-> vals[k + 1]],
     index_name |-> ""]

----------------------------------------------------------------------------
(* run_weighslide(infile, window, statistic, **kwargs)                      *)
(*                                                                         *)
(* A text is the sequence of its characters.  A path is a record           *)
(* [dir, file]: the folder names leading to the file, and the file's name  *)
(* as a text.  The disk is [dirs, files]: the directories that exist and   *)
(* what each existing file holds.  A table (DataFrame) is the sequence of  *)
(* its columns [name, vals].  run_raised names the Python exception that   *)
(* ended the run, or the error of calculate_weighted_windows it passed on. *)

NameLength == 20           \* [:20]

Csv == <<"c", "s", "v">>
Xls == <<"x", "l", "s">>
Xlsx == <<"x", "l", "s", "x">>

OutputFolder == "weighslide_output"

\* a statistic's name as a text
Spelled ==
    [mean |-> <<"m", "e", "a", "n">>, std |-> <<"s", "t", "d">>,
     sum |-> <<"s", "u", "m">>, median |-> <<"m", "e", "d", "i", "a", "n">>]

\* line 106: str(infile.name).split(".")[-1]
Extension(text) ==
    LET dots == {p \in 1..Len(text) : text[p] = "."}
        last == IF dots = {} THEN 0 ELSE CHOOSE p \in dots : \A q \in dots : q <= p
    IN  SubSeq(text, last + 1, Len(text))

\* faulty variant of First20: the whole text
First20Whole(text) == text

\* lines 146, 148, 152: text[:20]
First20(text) == SubSeq(text, 1, IF Len(text) < NameLength THEN Len(text) ELSE NameLength)

Has(key) == key \in DOMAIN run_kwargs

PathOf(f) == [dir |-> f.dir, file |-> f.file]

\* the disk after a file was written
Written(d, path, holds) ==
    [d EXCEPT !.files = [q \in (DOMAIN d.files) \cup {path} |->
                            IF q = path THEN holds ELSE d.files[q]]]

WithSuffix(path, suffix) == [path EXCEPT !.file = @ \o suffix]

\* lines 162-166
out_excelfile == WithSuffix(out_basename, <<".">> \o Xlsx)
out_csv_slice == WithSuffix(out_basename, <<"_", "s", "l", "i", "c", "e", "d", ".">> \o Csv)
out_csv_mult == WithSuffix(out_basename, <<"_", "m", "u", "l", "t", ".">> \o Csv)
out_csv_statistic == WithSuffix(out_basename, <<"_">> \o Spelled[statistic] \o <<".">> \o Csv)
out_png == WithSuffix(out_basename, <<".", "p", "n", "g">>)

RunRaise(kind) ==
    /\ run_raised' = kind
    /\ run_pc' = "failed"

\* lines 103-122; read_excel and read_csv deliver the table the file holds
ReadFile ==
    /\ run_pc = "read"
    /\ stdout' = Append(stdout, "Starting weighslide analysis.")
    /\ IF infile.type # "Path"
       THEN /\ RunRaise("AttributeError")
            /\ UNCHANGED df
       ELSE IF Extension(infile.file) \notin {Xlsx, Xls, Csv}
       THEN /\ RunRaise("ValueError")
            /\ UNCHANGED df
       ELSE IF PathOf(infile) \notin DOMAIN disk.files
       THEN /\ RunRaise("FileNotFoundError")
            /\ UNCHANGED df
       ELSE /\ df' = disk.files[PathOf(infile)]
            /\ run_pc' = "column"
            /\ UNCHANGED run_raised
    /\ UNCHANGED <<args, locals, data_series, pc, raised, returned, infile, run_kwargs,
                   disk, out_name, window_str, outpath, out_basename, overwrite>>

\* lines 125-138; a column of the name None is <<>>
SelectColumn ==
    /\ run_pc = "column"
    /\ IF Len(df) = 1
       THEN /\ data_series' = SeriesOf(df[1].vals, df[1].name)
            /\ run_pc' = "paths"
            /\ UNCHANGED run_raised
       ELSE IF Len(df) > 1
       THEN IF Has("column") /\ run_kwargs["column"] # <<>>
            THEN LET found == {c \in 1..Len(df) : df[c].name = run_kwargs["column"]}
                 IN  IF found # {}
                     THEN /\ \E c \in found :
                                data_series' = SeriesOf(df[c].vals, df[c].name)
                          /\ run_pc' = "paths"
                          /\ UNCHANGED run_raised
                     ELSE /\ RunRaise("KeyError")
                          /\ UNCHANGED data_series
            ELSE /\ RunRaise("ValueError")
                 /\ UNCHANGED data_series
       ELSE /\ RunRaise("ValueError")
            /\ UNCHANGED data_series
    /\ UNCHANGED <<args, locals, pc, stdout, raised, returned, infile, run_kwargs, disk, df,
                   out_name, window_str, outpath, out_basename, overwrite>>

\* lines 141-166
BuildPaths ==
    /\ run_pc = "paths"
    /\ out_name' = IF Has("name") THEN First20(run_kwargs["name"])
                                  ELSE First20(infile.file)
    /\ window_str' = IF window.type = "str" THEN First20(window.chars) ELSE <<>>
    /\ outpath' = Append(infile.dir, OutputFolder)
    /\ disk' = IF outpath' \in disk.dirs THEN disk
                                          ELSE [disk EXCEPT !.dirs = @ \cup {outpath'}]
    /\ out_basename' = [dir |-> outpath', file |-> out_name' \o window_str']
    /\ run_pc' = "exists"
    /\ UNCHANGED <<args, locals, data_series, pc, stdout, raised, returned, infile,
                   run_kwargs, df, overwrite, run_raised>>

\* lines 169-180
CheckExisting ==
    /\ run_pc = "exists"
    /\ overwrite' = IF Has("overwrite") THEN run_kwargs["overwrite"] ELSE FALSE
    /\ IF /\ \E filepath \in {out_excelfile, out_csv_slice, out_csv_mult,
                              out_csv_statistic, out_png} :
                 filepath \in DOMAIN disk.files
          /\ overwrite' # TRUE
       THEN RunRaise("FileExistsError")
       ELSE /\ run_pc' = "core"
            /\ UNCHANGED run_raised
    /\ UNCHANGED <<args, locals, data_series, pc, stdout, raised, returned, infile,
                   run_kwargs, disk, df, out_name, window_str, outpath, out_basename>>

\* line 183: the call, with no keyword argument and the default full_output
CallCore ==
    /\ run_pc = "core"
    /\ pc = "caller"
    /\ pc' = "call"
    /\ run_pc' = "called"
    /\ UNCHANGED <<args, locals, data_series, stdout, raised, returned, infile, run_kwargs,
                   disk, df, out_name, window_str, outpath, out_basename, overwrite,
                   run_raised>>

\* line 183: the four results are bound
CoreReturns ==
    /\ run_pc = "called"
    /\ pc = "done"
    /\ returned = "full"
    /\ run_pc' = "csv"
    /\ UNCHANGED <<args, locals, data_series, pc, stdout, raised, returned, infile,
                   run_kwargs, disk, df, out_name, window_str, outpath, out_basename,
                   overwrite, run_raised>>

\* line 183: an exception of the call is not caught
CoreRaises ==
    /\ run_pc = "called"
    /\ pc = "raised"
    /\ RunRaise(raised)
    /\ UNCHANGED <<args, locals, data_series, pc, stdout, raised, returned, infile,
                   run_kwargs, disk, df, out_name, window_str, outpath, out_basename,
                   overwrite>>

\* lines 187-193
SaveCsv ==
    /\ run_pc = "csv"
    /\ disk' = Written(Written(Written(disk, out_csv_slice, "orig_data_sliced"),
                               out_csv_mult, "data_multipled"),
                       out_csv_statistic, "window_statistic")
    /\ stdout' = Append(stdout, ".")
    /\ run_pc' = "excel"
    /\ UNCHANGED <<args, locals, data_series, pc, raised, returned, infile, run_kwargs, df,
                   out_name, window_str, outpath, out_basename, overwrite, run_raised>>

\* lines 196-205; ExcelWriter has a save() only in pandas before 2.0
SaveExcel ==
    /\ run_pc = "excel"
    /\ \E saves \in BOOLEAN :
          IF saves
          THEN /\ disk' = Written(disk, out_excelfile, "workbook")
               /\ stdout' = Append(stdout, ".")
               /\ run_pc' = "plot"
               /\ UNCHANGED run_raised
          ELSE /\ RunRaise("AttributeError")
               /\ UNCHANGED <<disk, stdout>>
    /\ UNCHANGED <<args, locals, data_series, pc, raised, returned, infile, run_kwargs, df,
                   out_name, window_str, outpath, out_basename, overwrite>>

\* lines 213-233; max() and min() are nan when the data has no value, and set_ylim
\* refuses nan limits in the matplotlib versions that validate them.  The folder
\* names of the model have more than one character, so len(inpath) > 1 is dir # <<>>.
Plot ==
    /\ run_pc = "plot"
    /\ \E lenient \in BOOLEAN :
          IF lenient \/ NonMissing(Values(data_series)) # <<>>
          THEN /\ disk' = Written(disk, out_png, "figure")
               /\ stdout' = IF infile.dir # <<>>
                            THEN stdout \o <<"Weighslide analysis is finished.",
                                             "Location of output files:">>
                            ELSE Append(stdout, "Weighslide analysis is finished.")
               /\ run_pc' = "finished"
               /\ UNCHANGED run_raised
          ELSE /\ RunRaise("ValueError")
               /\ UNCHANGED <<disk, stdout>>
    /\ UNCHANGED <<args, locals, data_series, pc, raised, returned, infile, run_kwargs, df,
                   out_name, window_str, outpath, out_basename, overwrite>>

NextRun ==
    \/ ReadFile
    \/ SelectColumn
    \/ BuildPaths
    \/ CheckExisting
    \/ CallCore
    \/ Next
    \/ CoreReturns
    \/ CoreRaises
    \/ SaveCsv
    \/ SaveExcel
    \/ Plot

----------------------------------------------------------------------------
(* The calls the model makes *)

SeqsUpTo(S, n) == UNION {[1..k -> S] : k \in 0..n}

Repeat(v, n) == [p \in 1..n |-> v]

DataValues == {NaN, Num(1), Num(2)}
WindowChars == {"x", "0", "9", "a"}
WindowItems == {TextItem("x"), NumItem(Rat(1, 2)), NumItem(Num(2)), TextItem("3"),
                TextItem("a")}
StatisticArgs == {"mean", "std", "sum", "median"}
OverrideFlags == {"allow_large_window", "allow_large_input"}

SmallData == SeqsUpTo(DataValues, MaxLen)
ShortData == SeqsUpTo(DataValues, 1)

SmallWindows ==
    {StrWindow(c) : c \in SeqsUpTo(WindowChars, MaxWinLen)} \cup
    {ListWindow(it) : it \in SeqsUpTo(WindowItems, MaxWinLen)}

Converts(w) ==
    IF w.type = "str" THEN StringConverts(w.chars) ELSE ListConverts(w.items)

LengthOf(w) == IF w.type = "str" THEN Len(w.chars) ELSE Len(w.items)

GoodWindows == {w \in SmallWindows : Converts(w) /\ LengthError(LengthOf(w)) = ""}

\* the docstring's example and the windows it names
Fibonacci == <<Num(0), Num(0), Num(0), Num(1), Num(1), Num(2), Num(3), Num(5), Num(8),
               Num(13), Num(21)>>

ExampleWindows ==
    {ListWindow(<<NumItem(Num(2)), NumItem(Num(5)), NumItem(Num(2))>>),
     ListWindow(<<NumItem(Num(2)), TextItem("x"), NumItem(Num(2))>>),
     ListWindow(<<NumItem(Num(1)), NumItem(Num(1)), NumItem(Num(1))>>),
     ListWindow(<<NumItem(Num(2)), TextItem("3"), NumItem(Num(2))>>),
     ListWindow(<<NumItem(Rat(1, 2)), NumItem(Num(1)), NumItem(Rat(1, 2))>>),
     StrWindow(<<"4", "9", "4">>),
     StrWindow(<<"4", "x", "4">>),
     OtherWindow(<<NumItem(Num(2)), NumItem(Num(5)), NumItem(Num(2))>>)}

\* the series and the window of tests/test_functional.py, without the noise
Wave == [p \in 1..48 |-> IF ((p - 1) % 6) < 3 THEN Num(1) ELSE Num(3)]

EverySixth == [p \in 1..37 |-> IF (p - 1) % 6 = 0 THEN "9" ELSE "x"]

ExampleData == {Fibonacci, <<Num(2), NaN, Num(4)>>}

\* windows around the length limit
LongestTried == MaxWindowLength + 2

LongWindows ==
    {StrWindow(Repeat("9", n)) : n \in 0..LongestTried} \cup
    {ListWindow(Repeat(NumItem(Num(1)), n)) : n \in (MaxWindowLength - 1)..LongestTried}

Scenario(kw, vals, name, w, stat, full) ==
    [kwargs |-> kw, vals |-> vals, name |-> name, window |-> w, statistic |-> stat,
     full_output |-> full]

Scenarios ==
    {Scenario({}, d, <<"noisy wave">>, w, st, TRUE) :
        d \in SmallData, w \in GoodWindows, st \in StatisticArgs}
    \cup
    {Scenario({}, d, <<"noisy wave">>, w, st, TRUE) :
        d \in ShortData, w \in SmallWindows, st \in StatisticArgs}
    \cup
    {Scenario({}, d, <<>>, w, st, full) :
        d \in ExampleData, w \in ExampleWindows, st \in StatisticArgs,
        full \in BOOLEAN}
    \cup
    {Scenario({}, <<Num(1), Num(2)>>, <<>>, w, st, TRUE) :
        w \in LongWindows, st \in {"sum", "median"}}
    \cup
    {Scenario({}, Wave, <<"noisy wave">>, StrWindow(EverySixth), st, TRUE) :
        st \in StatisticArgs}
    \cup
    {Scenario(kw, <<Num(1), Num(2)>>, <<>>, w, "sum", TRUE) :
        kw \in SUBSET OverrideFlags,
        w \in {StrWindow(Repeat("9", n)) : n \in (MaxWindowLength - 1)..LongestTried}}

\* series around the two size limits, all of value 1
LargeLengths == {WarnLength, WarnLength + 1, MaxDataLength, MaxDataLength + 1}

LargeScenarios ==
    {Scenario(kw, Repeat(Num(1), n), <<>>, StrWindow(<<"9">>), "sum", TRUE) :
        kw \in {{}, {"allow_large_input"}}, n \in LargeLengths}
    \cup
    {Scenario({}, d, <<>>, w, st, TRUE) :
        d \in {Repeat(Num(1), MaxDataLength + 1), <<>>},
        w \in {StrWindow(<<"9">>), StrWindow(<<"9", "9">>), StrWindow(<<"a">>),
               StrWindow(<<>>), StrWindow(Repeat("9", MaxWindowLength + 1)),
               ListWindow(<<TextItem("a"), NumItem(Num(1))>>),
               OtherWindow(<<NumItem(Num(1))>>)},
        st \in {"sum", "median"}}
    \cup
    {Scenario(kw, <<Num(1), Num(2)>>, <<>>, w, st, TRUE) :
        kw \in SUBSET OverrideFlags,
        w \in {StrWindow(Repeat("9", n)) : n \in (MaxWindowLength - 1)..LongestTried}
              \cup ExampleWindows,
        st \in {"sum", "median"}}

\* before calculate_weighted_windows has run
NothingComputed ==
    /\ window_length = 0
    /\ window_array = <<>>
    /\ extension_each_side = 0
    /\ extend_series = EmptySeries
    /\ output_series = EmptySeries
    /\ df_orig_sliced = <<>>
    /\ df_multiplied = <<>>
    /\ data_series_len = 0
    /\ i = 0
    /\ orig_sliced = EmptySeries
    /\ win_multiplied = EmptySeries
    /\ stdout = <<>>
    /\ raised = ""
    /\ returned = ""

NoDisk == [dirs |-> {}, files |-> <<>>]

\* before run_weighslide has assigned its locals
NothingBuilt ==
    /\ df = <<>>
    /\ out_name = <<>>
    /\ window_str = <<>>
    /\ outpath = <<>>
    /\ out_basename = [dir |-> <<>>, file |-> <<>>]
    /\ overwrite = FALSE
    /\ run_raised = ""

\* the state at the call
Start(sc) ==
    /\ kwargs = sc.kwargs
    /\ data_series = SeriesOf(sc.vals, sc.name)
    /\ window = sc.window
    /\ statistic = sc.statistic
    /\ full_output = sc.full_output
    /\ pc = "call"
    /\ NothingComputed
    /\ run_pc = "none"
    /\ infile = [type |-> "Path", dir |-> <<>>, file |-> <<>>]
    /\ run_kwargs = <<>>
    /\ disk = NoDisk
    /\ NothingBuilt

Init == \E sc \in Scenarios : Start(sc)

InitLarge == \E sc \in LargeScenarios : Start(sc)

Spec == Init /\ [][Next]_vars

SpecLarge == InitLarge /\ [][Next]_vars

\* The runs of run_weighslide the model makes

WaveTest == <<"w", "a", "v", "e", "t", "e", "s", "t">>
WaveFile == <<"w", "a", "v", "e", ".">>
NoisyWave == <<"noisy wave">>

\* the tables an input file may hold
Tables ==
    {<<[name |-> <<"time">>, vals |-> Fibonacci], [name |-> NoisyWave, vals |-> Wave]>>,
     <<[name |-> NoisyWave, vals |-> Wave]>>,
     <<[name |-> NoisyWave, vals |-> <<NaN, NaN>>]>>,
     <<[name |-> NoisyWave, vals |-> <<>>]>>,
     <<>>}

WaveTable == <<[name |-> <<"time">>, vals |-> Fibonacci], [name |-> NoisyWave, vals |-> Wave]>>

InFolder == <<"examples">>

InFile(type, dir, file) == [type |-> type, dir |-> dir, file |-> file]

\* the disk before the run: the input file and, if a run came before, files it left
DiskWith(f, table, earlier) ==
    LET folder == Append(f.dir, OutputFolder)
        left == IF earlier
                THEN {[dir |-> folder, file |-> WaveTest \o <<"9", ".", "p", "n", "g">>],
                      [dir |-> folder,
                       file |-> WaveTest \o SubSeq(EverySixth, 1, NameLength)
                                \o <<".">> \o Xlsx]}
                ELSE {}
    IN  [dirs |-> {f.dir} \cup (IF earlier THEN {folder} ELSE {}),
         files |-> [q \in {PathOf(f)} \cup left |->
                       IF q = PathOf(f) THEN table ELSE "earlier run"]]

Option(key, val) == [k \in {key} |-> val]

EachOf(key, vals) == {<<>>} \cup {Option(key, v) : v \in vals}

RunWindows ==
    {StrWindow(EverySixth), StrWindow(<<"9">>), StrWindow(<<"4", "x", "4">>),
     StrWindow(<<"9", "9">>), StrWindow(<<"a">>),
     ListWindow(<<NumItem(Num(2)), NumItem(Num(5)), NumItem(Num(2))>>),
     OtherWindow(<<NumItem(Num(2)), NumItem(Num(5)), NumItem(Num(2))>>)}

RunScenario(f, w, stat, kw, d) ==
    [infile |-> f, window |-> w, statistic |-> stat, run_kwargs |-> kw, disk |-> d]

RunScenarios ==
    {RunScenario(f, w, st, Option("column", NoisyWave) @@ name @@ over,
                 DiskWith(f, WaveTable, earlier)) :
        f \in {InFile("Path", InFolder, WaveFile \o Csv),
               InFile("Path", InFolder, Repeat("f", NameLength) \o <<".">> \o Xlsx),
               InFile("Path", <<>>, WaveFile \o Xls)},
        w \in RunWindows, st \in StatisticArgs,
        name \in EachOf("name", {WaveTest, Repeat("n", NameLength + 1)}),
        over \in EachOf("overwrite", BOOLEAN),
        earlier \in BOOLEAN}
    \cup
    {RunScenario(f, StrWindow(<<"9">>), "mean",
                 Option("name", WaveTest) @@ Option("overwrite", TRUE) @@ col,
                 IF present THEN DiskWith(f, table, TRUE) ELSE NoDisk) :
        f \in {InFile("Path", InFolder, WaveFile \o Csv),
               InFile("str", InFolder, WaveFile \o Csv),
               InFile("Path", InFolder, WaveFile \o <<"t", "x", "t">>),
               InFile("Path", InFolder, <<"w", "a", "v", "e">>)},
        table \in Tables,
        col \in EachOf("column", {NoisyWave, <<"signal">>, <<>>}),
        present \in BOOLEAN}

\* the state when run_weighslide is called; line 183 passes calculate_weighted_windows
\* the window and the statistic, no keyword argument and no full_output
StartRun(rs) ==
    /\ kwargs = {}
    /\ data_series = EmptySeries
    /\ window = rs.window
    /\ statistic = rs.statistic
    /\ full_output = TRUE
    /\ pc = "caller"
    /\ NothingComputed
    /\ run_pc = "read"
    /\ infile = rs.infile
    /\ run_kwargs = rs.run_kwargs
    /\ disk = rs.disk
    /\ NothingBuilt

InitRun == \E rs \in RunScenarios : StartRun(rs)

SpecRun == InitRun /\ [][NextRun]_vars

----------------------------------------------------------------------------
(* What the properties below are stated in: the arguments of the call *)

InputLength == Len(data_series.index)

\* the input value at position k, missing outside 0 .. N-1
InputAt(k) == IF k \in 0..(InputLength - 1) THEN data_series.at[k] ELSE NaN

WindowHalf == (LengthOf(window) - 1) \div 2

\* the window argument was converted to a weight vector
WindowParsed ==
    /\ pc \notin {"call", "window"}
    /\ raised \notin {"UnexpectedKeyword", "InvalidSpecification"}

\* input[n - half + j] * weight[j] for j = 0 .. L-1, written from the positions
CentredProducts(n) ==
    [p \in 1..LengthOf(window) |-> Mul(InputAt(n - WindowHalf + p - 1), window_array[p])]

ValidCall ==
    /\ kwargs = {}
    /\ window.type \in {"str", "list"}
    /\ Converts(window)
    /\ LengthOf(window) % 2 = 1
    /\ LengthOf(window) <= MaxWindowLength
    /\ statistic \in {"mean", "std", "sum"}
    /\ InputLength <= MaxDataLength

ExampleWindow252 == ListWindow(<<NumItem(Num(2)), NumItem(Num(5)), NumItem(Num(2))>>)

----------------------------------------------------------------------------
(* C1: a valid call (valid window, known statistic, input within the size *)
(* limit) never raises, and the output series it returns has exactly one   *)
(* entry per input position, labelled 0 .. N-1 in order, entry n being the *)
(* statistic of the weighted slice centred on input position n.            *)
C1_OutputAlignedWithInput ==
    /\ ValidCall => pc # "raised"
    /\ (pc = "done" /\ ValidCall) =>
          /\ returned \in {"full", "series"}
          /\ output_series.index = [p \in 1..InputLength |-> p - 1]
          /\ DOMAIN output_series.at = 0..(InputLength - 1)
          /\ \A n \in 0..(InputLength - 1) :
                output_series.at[n] = StatisticOf(statistic, CentredProducts(n))

C1_Witness ==
    /\ pc = "done"
    /\ ValidCall
    /\ Values(data_series) = Fibonacci
    /\ window = ExampleWindow252
    /\ statistic = "mean"
    /\ Len(output_series.index) = 11
    /\ output_series.at[5] = Num(6)

----------------------------------------------------------------------------
(* C2: with statistic "sum" and a list window, output[n] is the sum of     *)
(* input[n-half+j] * weight[j] over exactly the j in 0 .. L-1 whose window  *)
(* element is not the ignore marker, whose position n-half+j lies in       *)
(* 0 .. N-1 and whose input value is not missing; the sum over              *)
(* [2, missing, 4] is 6 and the docstring example gives 18 at position 5.  *)

SumTermPositions(n) ==
    {j \in 0..(LengthOf(window) - 1) :
        /\ window.items[j + 1] # TextItem(IgnoreMarker)
        /\ (n - WindowHalf + j) \in 0..(InputLength - 1)
        /\ ~IsNaN(data_series.at[n - WindowHalf + j])}

RECURSIVE SumOfTerms(_, _)
SumOfTerms(J, n) ==
    IF J = {} THEN Num(0)
    ELSE LET j == CHOOSE x \in J : TRUE
         IN  Add(Mul(data_series.at[n - WindowHalf + j], window_array[j + 1]),
                 SumOfTerms(J \ {j}, n))

C2_SumSkipsMissing ==
    (pc = "done" /\ statistic = "sum" /\ window.type = "list") =>
        /\ \A n \in 0..(InputLength - 1) :
              output_series.at[n] = SumOfTerms(SumTermPositions(n), n)
        /\ (Values(data_series) = Fibonacci /\ window = ExampleWindow252) =>
              output_series.at[5] = Num(18)
        /\ (Values(data_series) = <<Num(2), NaN, Num(4)>>
                /\ window = ListWindow(<<NumItem(Num(1)), NumItem(Num(1)), NumItem(Num(1))>>)) =>
              output_series.at[1] = Num(6)

C2_Witness ==
    /\ pc = "done"
    /\ statistic = "sum"
    /\ Values(data_series) = <<Num(2), NaN, Num(4)>>
    /\ window = ListWindow(<<NumItem(Num(1)), NumItem(Num(1)), NumItem(Num(1))>>)
    /\ Values(win_multiplied) = <<NaN, Num(4), NaN>>
    /\ output_series.at[1] = Num(6)

----------------------------------------------------------------------------
(* C3: with statistic "mean", output[n] is the sum of the non-missing      *)
(* entries of the weighted slice at n divided by the number of those       *)
(* entries, not by the window length: the docstring example gives 131/2 at *)
(* the last position (slice [13, 21, missing]) and 6 at position 5.        *)

PresentPositions(n) == {p \in 1..LengthOf(window) : ~IsNaN(CentredProducts(n)[p])}

RECURSIVE SumOfPresent(_, _)
SumOfPresent(P, n) ==
    IF P = {} THEN Num(0)
    ELSE LET p == CHOOSE x \in P : TRUE
         IN  Add(CentredProducts(n)[p], SumOfPresent(P \ {p}, n))

C3_MeanDividesByCount ==
    (pc = "done" /\ statistic = "mean") =>
        /\ \A n \in 0..(InputLength - 1) :
              PresentPositions(n) # {} =>
                 output_series.at[n] =
                    DivInt(SumOfPresent(PresentPositions(n), n),
                           Cardinality(PresentPositions(n)))
        /\ (Values(data_series) = Fibonacci /\ window = ExampleWindow252) =>
              /\ output_series.at[10] = Rat(131, 2)
              /\ output_series.at[5] = Num(6)

C3_Witness ==
    /\ pc = "done"
    /\ statistic = "mean"
    /\ Values(data_series) = Fibonacci
    /\ window = ExampleWindow252
    /\ Values(orig_sliced) = <<Num(13), Num(21), NaN>>
    /\ output_series.at[10] = <<131, 2>>

----------------------------------------------------------------------------
(* C4: for a string window of length L over the digits and the ignore      *)
(* marker "x", the weight vector has exactly L entries; entry k is         *)
(* (d+1)/10 when character k is the digit d (0.1 for "0", 1.0 for "9",     *)
(* never 0) and is the missing sentinel when character k is "x"; "494"     *)
(* gives [0.5, 1.0, 0.5] and "4x4" gives [0.5, missing, 0.5].              *)

\* the digit a character writes, read off the decimal numerals
DigitWritten(c) == CHOOSE d \in 0..9 : ToString(d) = c

C4_StringWeights ==
    (window.type = "str" /\ WindowParsed) =>
        /\ Len(window_array) = Len(window.chars)
        /\ \A k \in 1..Len(window.chars) :
              LET c == window.chars[k]
                  w == window_array[k]
              IN  /\ c = "x" => IsNaN(w)
                  /\ c # "x" =>
                        /\ ~IsNaN(w)
                        /\ w[1] > 0
                        /\ 10 * w[1] = (DigitWritten(c) + 1) * w[2]
                  /\ c = "0" => w = <<1, 10>>
                  /\ c = "9" => w = <<1, 1>>
        /\ window.chars = <<"4", "9", "4">> => window_array = <<<<1, 2>>, <<1, 1>>, <<1, 2>>>>
        /\ window.chars = <<"4", "x", "4">> => window_array = <<<<1, 2>>, NaN, <<1, 2>>>>

C4_Witness ==
    /\ pc = "done"
    /\ returned = "full"
    /\ window = StrWindow(<<"4", "x", "4">>)
    /\ window_array = <<<<1, 2>>, <<0, 0>>, <<1, 2>>>>

----------------------------------------------------------------------------
(* C5: a valid string window and the list whose k-th element is (d+1)/10   *)
(* for the digit d and the ignore marker for "x" give the same weight      *)
(* vector and the same output series, for every input and statistic.       *)

\* the list that spells out a string window
AsListItems(chars) ==
    [k \in 1..Len(chars) |->
        IF chars[k] = "x" THEN TextItem("x")
        ELSE NumItem(Rat(DigitWritten(chars[k]) + 1, 10))]

\* the output entry n of the call made with a list of items
ListOutputAt(items, n) ==
    StatisticOf(statistic,
        [p \in 1..Len(items) |->
            Mul(InputAt(n - ((Len(items) - 1) \div 2) + p - 1), ListWindowArray(items)[p])])

C5_StringEqualsList ==
    (window.type = "str" /\ WindowParsed) =>
        LET items == AsListItems(window.chars)
        IN  /\ ListConverts(items)
            /\ window_length = Len(items)
            /\ window_array = ListWindowArray(items)
            /\ pc = "done" =>
                  \A n \in 0..(InputLength - 1) :
                      output_series.at[n] = ListOutputAt(items, n)

C5_Witness ==
    /\ pc = "done"
    /\ window = StrWindow(<<"9", "x", "9">>)
    /\ statistic = "sum"
    /\ Values(data_series) = <<Num(1), Num(2)>>
    /\ window_array = ListWindowArray(<<NumItem(Num(1)), TextItem("x"), NumItem(Num(1))>>)
    /\ output_series.at[0] = Num(2)

----------------------------------------------------------------------------
(* C6: once the window is converted, its length is checked in a fixed      *)
(* order: length 0 raises EmptyWindow (not EvenWindowLength); otherwise an *)
(* even length raises EvenWindowLength, also above 100; otherwise a length *)
(* above 100 raises WindowTooLong; every odd length from 1 to 99 passes.   *)
(* A call that fails one of these checks has produced no output.           *)

LengthChecked == WindowParsed /\ pc # "length"

LengthErrors == {"EmptyWindow", "EvenWindowLength", "WindowTooLong"}

C6_LengthCheckOrder ==
    LengthChecked =>
        LET len == LengthOf(window)
        IN  /\ len = 0 => raised = "EmptyWindow"
            /\ (len > 0 /\ len % 2 = 0) => raised = "EvenWindowLength"
            /\ (len % 2 = 1 /\ len > 100) => raised = "WindowTooLong"
            /\ (len % 2 = 1 /\ len <= 99) => raised \notin LengthErrors
            /\ raised \in LengthErrors =>
                  /\ pc = "raised"
                  /\ returned = ""
                  /\ output_series = EmptySeries
                  /\ df_orig_sliced = <<>>
                  /\ df_multiplied = <<>>

C6_Witness ==
    /\ LengthChecked
    /\ LengthOf(window) = 102
    /\ raised = "EvenWindowLength"

----------------------------------------------------------------------------
(* C7: a window with an invalid element is rejected: a string with a       *)
(* character other than a digit or "x", and a list with an element that is *)
(* neither a number nor the ignore marker (the text "3" for one), make the *)
(* call raise InvalidSpecification and build no weight vector.             *)

HasInvalidElement(w) ==
    \/ /\ w.type = "str"
       /\ \E k \in 1..Len(w.chars) :
             w.chars[k] \notin {"x", "0", "1", "2", "3", "4", "5", "6", "7", "8", "9"}
    \/ /\ w.type = "list"
       /\ \E k \in 1..Len(w.items) :
             w.items[k].kind # "num" /\ w.items[k] # TextItem("x")

C7_InvalidElementRejected ==
    (kwargs = {} /\ HasInvalidElement(window) /\ pc \notin {"call", "window"}) =>
        /\ raised = "InvalidSpecification"
        /\ window_array = <<>>

----------------------------------------------------------------------------
(* C8: a statistic other than "mean", "std", "sum" with a valid window and *)
(* an input within the size limit makes the call raise UnknownStatistic    *)
(* and return no output series.                                            *)

UnknownStatisticCall ==
    /\ kwargs = {}
    /\ window.type \in {"str", "list"}
    /\ Converts(window)
    /\ LengthOf(window) % 2 = 1
    /\ LengthOf(window) <= MaxWindowLength
    /\ statistic \notin {"mean", "std", "sum"}
    /\ InputLength <= MaxDataLength

C8_UnknownStatisticFails ==
    UnknownStatisticCall =>
        /\ pc # "done"
        /\ pc = "raised" => (raised = "UnknownStatistic" /\ returned = "")

(* C8 as amended: the same for a non-empty input; the selector is looked   *)
(* at in the pass of the loop, which an empty input never enters.          *)
C8_UnknownStatisticFailsNonEmpty ==
    (UnknownStatisticCall /\ InputLength >= 1) =>
        /\ pc \notin {"return", "done"}
        /\ returned = ""
        /\ pc = "raised" => raised = "UnknownStatistic"

C8_Witness ==
    /\ UnknownStatisticCall
    /\ InputLength = 2
    /\ statistic = "median"
    /\ pc = "raised"
    /\ raised = "UnknownStatistic"
    /\ returned = ""

----------------------------------------------------------------------------
(* C9: the input size is checked before any position is reduced.  An input *)
(* of length N > 10000 raises InputTooLarge with no output position        *)
(* computed; for 1000 < N <= 10000 a warning is printed and the call still *)
(* returns the full result; for N <= 1000 no warning is printed.  N =      *)
(* 10000 is accepted, 10001 fails, 1000 does not warn, 1001 warns.         *)

SizeChecked ==
    /\ LengthChecked
    /\ raised \notin LengthErrors
    /\ pc \notin {"pad", "size"}

Warned == \E p \in 1..Len(stdout) : stdout[p] = "Warning"

----------------------------------------------------------------------------
(* C10: the two size limits can be relaxed by flags of the call: with      *)
(* allow_large_window an odd window longer than 100 is accepted, with      *)
(* allow_large_input an input longer than 10000 is processed; with the     *)
(* flags unset both limits apply.                                          *)

Ended == pc \in {"done", "raised"}

OddLongWindow ==
    /\ window.type \in {"str", "list"}
    /\ Converts(window)
    /\ LengthOf(window) % 2 = 1
    /\ LengthOf(window) > 100

ShortWindow ==
    /\ window.type \in {"str", "list"}
    /\ Converts(window)
    /\ LengthOf(window) % 2 = 1
    /\ LengthOf(window) <= 100

----------------------------------------------------------------------------
(* C11: the call leaves the caller's input series as it was - its values,  *)
(* its index and its name - when it returns and when it raises: no step of *)
(* the call changes data_series.                                           *)
C11_InputUnchanged == [][data_series' = data_series]_vars

----------------------------------------------------------------------------
(* C13: for every window length L that passes the checks (half =           *)
(* (L-1)/2, also above 5, the number of labels padded after the data) and  *)
(* every position n in 0 .. N-1, the slice built for n has exactly L       *)
(* entries - the assertion never fails - and its entry j is                *)
(* input[n-half+j] when that position lies in 0 .. N-1 and is missing      *)
(* otherwise; so the slices holding a padded entry are exactly those of    *)
(* the positions n < half and n >= N-half.                                 *)

\* the slices are all built
Sliced == pc \in {"return", "done"}

\* column n of the table of slices, as written by fillna("nodata")
SliceColumn(n) == df_orig_sliced[n + 1]

HoldsPadding(col) == \E p \in 1..Len(col.index) : col.index[p] \notin 0..(InputLength - 1)

C13_SlicesCentredAndFull ==
    /\ raised # "SliceLengthMismatch"
    /\ Sliced =>
          /\ Len(df_orig_sliced) = InputLength
          /\ \A n \in 0..(InputLength - 1) :
                LET col == SliceColumn(n)
                IN  /\ Len(col.index) = LengthOf(window)
                    /\ \A j \in 0..(LengthOf(window) - 1) :
                          /\ col.index[j + 1] = n - WindowHalf + j
                          /\ col.at[col.index[j + 1]] =
                                IF IsNaN(InputAt(n - WindowHalf + j)) THEN NoData
                                ELSE data_series.at[n - WindowHalf + j]
                    /\ HoldsPadding(col) <=> (n < WindowHalf \/ n >= InputLength - WindowHalf)
          /\ InputLength > 0 =>
                /\ Len(orig_sliced.index) = LengthOf(window)
                /\ \A j \in 0..(LengthOf(window) - 1) :
                      orig_sliced.at[orig_sliced.index[j + 1]] =
                         InputAt(InputLength - 1 - WindowHalf + j)

C13_Witness ==
    /\ pc = "done"
    /\ Values(data_series) = Wave
    /\ WindowHalf = 18
    /\ Len(SliceColumn(47).index) = 37
    /\ SliceColumn(47).index[37] = 65
    /\ ~HoldsPadding(SliceColumn(20))
    /\ HoldsPadding(SliceColumn(30))

----------------------------------------------------------------------------
(* C14: when a call breaks several conditions at once, the error follows   *)
(* the order of the checks: a window error first, then InputTooLarge, then *)
(* UnknownStatistic.  An invalid window with an oversize input or an       *)
(* unknown statistic raises the window error; an oversize input with an    *)
(* unknown statistic raises InputTooLarge; the statistic is looked at only *)
(* in the loop, after the first slice is built, so never when the loop     *)
(* runs zero times.                                                        *)

\* an element that is neither the ignore marker nor convertible to a float
HasInvalidConversion ==
    \/ /\ window.type = "str"
       /\ \E k \in 1..Len(window.chars) :
             window.chars[k] \notin {"x", "0", "1", "2", "3", "4", "5", "6", "7", "8", "9"}
    \/ /\ window.type = "list"
       /\ \E k \in 1..Len(window.items) :
             /\ window.items[k].kind # "num"
             /\ window.items[k].text \notin
                   {"x", "0", "1", "2", "3", "4", "5", "6", "7", "8", "9"}

WindowErrors == {"InvalidSpecification", "EmptyWindow", "EvenWindowLength", "WindowTooLong"}

WindowInvalid ==
    \/ window.type \notin {"str", "list"}
    \/ HasInvalidConversion
    \/ LengthOf(window) = 0
    \/ LengthOf(window) % 2 = 0
    \/ LengthOf(window) > 100

Oversize == InputLength > 10000

StatisticUnknown == statistic \notin {"mean", "std", "sum"}

C14_ErrorOrder ==
    (Ended /\ kwargs = {}) =>
        /\ WindowInvalid => raised \in WindowErrors
        /\ (~WindowInvalid /\ Oversize) => raised = "InputTooLarge"
        /\ (~WindowInvalid /\ ~Oversize /\ StatisticUnknown /\ InputLength >= 1) =>
              /\ raised = "UnknownStatistic"
              /\ i = 0
              /\ Len(df_orig_sliced) = 1
              /\ Len(df_multiplied) = 1
              /\ orig_sliced.name = <<"window", "0">>
        /\ (~WindowInvalid /\ StatisticUnknown /\ InputLength = 0) =>
              /\ pc = "done"
              /\ raised = ""
              /\ df_orig_sliced = <<>>

C14_Witness ==
    /\ Ended
    /\ kwargs = {}
    /\ ~WindowInvalid
    /\ Oversize
    /\ StatisticUnknown
    /\ raised = "InputTooLarge"

----------------------------------------------------------------------------
(* C15: a weighted slice with too few non-missing entries raises nothing   *)
(* and gives a fixed value.  "sum" gives 0 when no entry is present, so a  *)
(* sum is never missing; "mean" is missing exactly when no entry is        *)
(* present; "std" is missing exactly when fewer than two are, so a window  *)
(* of length 1 gives a missing std at every position.                      *)

PresentCount(n) == Cardinality(PresentPositions(n))

C15_TooFewEntries ==
    /\ (SizeChecked /\ raised # "InputTooLarge" /\ ~StatisticUnknown) => raised = ""
    /\ (Sliced /\ ~StatisticUnknown) =>
          \A n \in 0..(InputLength - 1) :
              LET out == output_series.at[n]
              IN  /\ statistic = "sum" =>
                        /\ ~IsNaN(out)
                        /\ PresentCount(n) = 0 => out = <<0, 1>>
                  /\ statistic = "mean" => (IsNaN(out) <=> PresentCount(n) = 0)
                  /\ statistic = "std" =>
                        /\ IsNaN(out) <=> PresentCount(n) < 2
                        /\ LengthOf(window) = 1 => IsNaN(out)

C15_Witness ==
    /\ pc = "done"
    /\ statistic = "std"
    /\ LengthOf(window) = 1
    /\ Values(data_series) = <<Num(1), Num(2)>>
    /\ ~IsNaN(window_array[1])
    /\ Values(output_series) = <<NaN, NaN>>

----------------------------------------------------------------------------
(* C12: after run_weighslide completes for an input file, a string window  *)
(* w, a statistic s and a name n, the directory "weighslide_output" next   *)
(* to the input file exists and contains the five files whose base name is *)
(* the first 20 characters of n followed by the first 20 characters of w:  *)
(* <base>.png, <base>.xlsx, <base>_<s>.csv, <base>_sliced.csv and          *)
(* <base>_mult.csv.                                                        *)

Prefix(text, k) == [p \in 1..(IF Len(text) < k THEN Len(text) ELSE k) |-> text[p]]

Completed == run_pc = "finished"

OutputSuffixes ==
    {<<".", "p", "n", "g">>,
     <<".", "x", "l", "s", "x">>,
     <<"_">> \o Spelled[statistic] \o <<".", "c", "s", "v">>,
     <<"_", "s", "l", "i", "c", "e", "d", ".", "c", "s", "v">>,
     <<"_", "m", "u", "l", "t", ".", "c", "s", "v">>}

C12_OutputFiles ==
    (Completed /\ window.type = "str" /\ "name" \in DOMAIN run_kwargs) =>
        LET base == Prefix(run_kwargs["name"], 20) \o Prefix(window.chars, 20)
            folder == infile.dir \o <<"weighslide_output">>
        IN  /\ folder \in disk.dirs
            /\ \A suffix \in OutputSuffixes :
                  LET path == [dir |-> folder, file |-> base \o suffix]
                  IN  /\ path \in DOMAIN disk.files
                      /\ disk.files[path] # "earlier run"

\* name "wavetest" and the 37-character window give wavetest9xxxxx9xxxxx9xxxxx9x_mean.csv
C12_Witness ==
    /\ Completed
    /\ "name" \in DOMAIN run_kwargs
    /\ run_kwargs["name"] = <<"w", "a", "v", "e", "t", "e", "s", "t">>
    /\ window.type = "str"
    /\ Len(window.chars) = 37
    /\ statistic = "mean"
    /\ [dir |-> <<"examples", "weighslide_output">>,
        file |-> <<"w", "a", "v", "e", "t", "e", "s", "t",
                   "9", "x", "x", "x", "x", "x", "9", "x", "x", "x", "x", "x",
                   "9", "x", "x", "x", "x", "x", "9", "x",
                   "_", "m", "e", "a", "n", ".", "c", "s", "v">>] \in DOMAIN disk.files

====
